---------------------------- MODULE Spec2Model ----------------------------
(***************************************************************************)
(* Cell Ranger ARC module of MultiQC: the scan of the web_summary files,   *)
(* the per-file parse, the sample exclusion filter and the report outputs  *)
(* of MultiqcModule.__init__ (multiqc/modules/cellranger_arc).             *)
(***************************************************************************)
EXTENDS Integers, Sequences, FiniteSets, TLC

\* Number of files find_log_files yields in one run (at most).
MaxFiles == 2

\* 1-based position of the row rows[2] read by the version extraction.
VersionRow == 3

-----------------------------------------------------------------------------
(* Python dict helpers: a dict is a function whose DOMAIN is its key set.  *)

EmptyDict == [k \in {} |-> 0]

DictSet(d, k, v) == [x \in (DOMAIN d) \cup {k} |-> IF x = k THEN v ELSE d[x]]

DictDrop(d, ks) == [x \in (DOMAIN d) \ ks |-> d[x]]

SeqRange(s) == {s[i] : i \in 1..Len(s)}

RECURSIVE Flatten(_)
Flatten(ss) == IF Len(ss) = 0 THEN << >> ELSE Head(ss) \o Flatten(Tail(ss))

-----------------------------------------------------------------------------
(* The fixed key names the parser reads, in the order it reads them.       *)

\* the table list with "gex_mapping_table" left out
data_rows_keys_short ==
    << "joint_metrics_table", "atac_sequencing_table", "gex_sequencing_table",
       "atac_cells_table", "gex_cells_table", "atac_mapping_table",
       "atac_targeting_table" >>

data_rows_keys ==
    << "joint_metrics_table", "atac_sequencing_table", "gex_sequencing_table",
       "atac_cells_table", "gex_cells_table", "atac_mapping_table",
       "gex_mapping_table", "atac_targeting_table" >>

help_text_keys ==
    << "joint_metrics_helptext", "atac_sequencing_helptext",
       "gex_sequencing_helptext", "atac_cells_helptext", "gex_cells_helptext",
       "atac_mapping_helptext", "gex_mapping_helptext",
       "atac_targeting_helptext" >>

\* plot_type -> key of the summary, in the order the parser reads them
PlotTypes == << "tss", "insert_size", "saturation", "genes" >>

plot_keys ==
    << "atac_tss_enrichment_plot", "atac_insert_size_plot",
       "gex_seq_saturation_plot", "gex_genes_per_cell_plot" >>

PlotTypeSet == {"tss", "insert_size", "saturation", "genes"}

general_cols ==
    << "Estimated number of cells",
       "Fraction of high-quality fragments in cells",
       "Median genes per cell", "Feature linkages detected",
       "Linked genes", "Linked peaks" >>


-----------------------------------------------------------------------------
(* Inputs: the RawSummary objects and the report files of a run.  A JSON   *)
(* object is a function on its keys; a JSON string that the code takes     *)
(* apart (the sample id, the pipeline version) is the sequence of its      *)
(* pieces.                                                                 *)

\* the sections of the required JSON shape
TableSections ==
    {"joint_metrics_table", "atac_sequencing_table", "gex_sequencing_table",
     "atac_cells_table", "gex_cells_table", "atac_mapping_table",
     "gex_mapping_table", "atac_targeting_table"}

HelptextSections ==
    {"joint_metrics_helptext", "atac_sequencing_helptext",
     "gex_sequencing_helptext", "atac_cells_helptext", "gex_cells_helptext",
     "atac_mapping_helptext", "gex_mapping_helptext", "atac_targeting_helptext"}

PlotSections ==
    {"atac_tss_enrichment_plot", "atac_insert_size_plot",
     "gex_seq_saturation_plot", "gex_genes_per_cell_plot"}

\* sample.id values: "A", "A.fastq" and "B"
RawIds == { << "A" >>, << "A", ".fastq" >>, << "B" >> }

Variants == {"v1", "v2"}

Row(name, value) == << name, value >>

\* rows of every table section of a summary of variant v
TableRows(v) ==
    [k \in TableSections |->
        IF v = "v1"
        THEN CASE k = "joint_metrics_table" ->
                    << Row("Estimated number of cells", "100"),
                       Row("Linked genes", "7") >>
               [] k = "atac_sequencing_table" ->
                    << Row("Sequenced read pairs", "500") >>
               [] k = "gex_sequencing_table" ->
                    << Row("Sequenced read pairs", "900") >>
               [] OTHER -> << >>
        ELSE CASE k = "joint_metrics_table" ->
                    << Row("Estimated number of cells", "250") >>
               [] k = "gex_cells_table" ->
                    << Row("Median genes per cell", "30") >>
               [] OTHER -> << >>]

\* data of every helptext section of a summary of variant v
HelpData(v) ==
    [k \in HelptextSections |->
        IF v = "v1"
        THEN CASE k = "joint_metrics_helptext" ->
                    << Row("Estimated number of cells", "cells (v1 text)"),
                       Row("Linked genes", "genes linked to peaks") >>
               [] k = "atac_sequencing_helptext" ->
                    << Row("Sequenced read pairs", "ATAC read pairs") >>
               [] OTHER -> << >>
        ELSE CASE k = "joint_metrics_helptext" ->
                    << Row("Estimated number of cells", "cells (v2 text)") >>
               [] OTHER -> << >>]

\* the plot object of plot section k of a summary of variant v
PlotObject(v, k) ==
    LET base == IF v = "v1" THEN 10 ELSE 20
        off  == CASE k = "atac_tss_enrichment_plot" -> 1
                  [] k = "atac_insert_size_plot" -> 2
                  [] k = "gex_seq_saturation_plot" -> 3
                  [] OTHER -> 4
    IN  [x |-> << 0, 1 >>, y |-> << base + off, base + off + 1 >>]

Alarm(title, message) == [id |-> "alarm", title |-> title, message |-> message]

AlarmNoId(title, message) == [title |-> title, message |-> message]

AlarmVariants == {"nokey", "empty", "id1", "noid", "mixed", "two", "dup"}

AlarmsBlock(a) ==
    CASE a = "nokey" -> EmptyDict
      [] a = "empty" -> [alarms |-> << >>]
      [] a = "id1"   -> [alarms |-> << Alarm("Low cells", "few cells") >>]
      [] a = "noid"  -> [alarms |-> << AlarmNoId("Low cells", "few cells") >>]
      [] a = "mixed" -> [alarms |-> << Alarm("Low cells", "few cells"),
                                       AlarmNoId("Low Q30", "bad bases") >>]
      [] a = "two"   -> [alarms |-> << Alarm("Low cells", "few cells"),
                                       Alarm("Low Q30", "bad bases") >>]
      [] OTHER       -> [alarms |-> << Alarm("Low Q30", "bad bases"),
                                       Alarm("Low Q30", "worse bases") >>]

Str(pieces) == [str |-> pieces]

Num(n) == [num |-> n]

PinfoVariants ==
    {"ok", "absent", "norows", "norowsatall", "short", "wrong", "nomatch",
     "embedded", "number"}

InfoHead == << Row("Sample ID", Str(<< "x" >>)), Row("Sample description", Str(<< >>)) >>

\* joint_pipeline_info_table of variant p ("absent": MkSummary drops the key)
PinfoTable(p) ==
    CASE p = "ok" ->
            [rows |-> InfoHead \o
                << Row("Pipeline version", Str(<< "cellranger-arc-", "2.0.1" >>)) >>]
      [] p = "norows" -> EmptyDict
      [] p = "norowsatall" -> [rows |-> << >>]
      [] p = "short" -> [rows |-> InfoHead]
      [] p = "wrong" ->
            [rows |-> InfoHead \o
                << Row("Something else", Str(<< "cellranger-arc-", "2.0.1" >>)) >>]
      [] p = "nomatch" ->
            [rows |-> InfoHead \o
                << Row("Pipeline version", Str(<< "cellranger-", "7.1.0" >>)) >>]
      [] p = "embedded" ->
            [rows |-> InfoHead \o
                << Row("Pipeline version",
                       Str(<< "/opt/", "cellranger-arc-", "2.0.0", "/bin" >>)) >>]
      [] OTHER ->
            [rows |-> InfoHead \o << Row("Pipeline version", Num(42)) >>]

AllKeys ==
    {"sample", "joint_pipeline_info_table", "alarms"}
        \cup TableSections \cup HelptextSections \cup PlotSections

RequiredKeys == TableSections \cup HelptextSections \cup PlotSections

\* a summary with every key of the required JSON shape
FullSummary(id, v, a, p) ==
    [k \in AllKeys |->
        CASE k = "sample" -> [id |-> id]
          [] k = "joint_pipeline_info_table" ->
                PinfoTable(p)
          [] k = "alarms" -> AlarmsBlock(a)
          [] k \in TableSections -> [rows |-> TableRows(v)[k]]
          [] k \in HelptextSections -> [data |-> HelpData(v)[k]]
          [] OTHER -> PlotObject(v, k)]

MkSummary(id, v, a, p, missing) ==
    LET full == FullSummary(id, v, a, p)
        gone == missing \cup (IF p = "absent" THEN {"joint_pipeline_info_table"} ELSE {})
    IN  DictDrop(full, gone)

CoreSummaries ==
    { MkSummary(<< "A" >>, "v1", "id1", "ok", {}),
      MkSummary(<< "A" >>, "v2", "empty", "ok", {}),
      MkSummary(<< "A", ".fastq" >>, "v1", "empty", "ok", {}),
      MkSummary(<< "A", ".fastq" >>, "v2", "id1", "ok", {}),
      MkSummary(<< "B" >>, "v1", "empty", "ok", {}),
      MkSummary(<< "B" >>, "v2", "id1", "ok", {}) }

AlarmSummaries ==
    { MkSummary(<< "A" >>, "v1", a, "ok", {}) : a \in AlarmVariants }

PinfoSummaries ==
    { MkSummary(<< "B" >>, "v1", "empty", p, {}) : p \in PinfoVariants }

MissingSummaries ==
    { MkSummary(<< "B" >>, "v1", "id1", "ok", {k}) : k \in RequiredKeys }

Summaries == CoreSummaries \cup AlarmSummaries \cup PinfoSummaries \cup MissingSummaries

\* A line of a file: leading whitespace, then head, then body.  The body is
\* the text of a JSON object (valid) or text that is no JSON (junk).
Json(obj) == [valid |-> TRUE, obj |-> obj]

Junk == [valid |-> FALSE]

Line(ws, head, body) == [ws |-> ws, head |-> head, body |-> body]

DataLine(obj) == Line(FALSE, "const data = ", Json(obj))

OtherLine == Line(FALSE, "<script>", Junk)

S0 == MkSummary(<< "A" >>, "v1", "id1", "ok", {})

S1 == MkSummary(<< "B" >>, "v2", "empty", "ok", {})

StructuredFiles ==
    { << >>,
      << OtherLine, Line(TRUE, "<script>", Junk) >>,
      << OtherLine, DataLine(S0), OtherLine >>,
      << Line(TRUE, "const data = ", Json(S1)) >>,
      << DataLine(S0), DataLine(S1) >>,
      << DataLine(S0), Line(FALSE, "const data = ", Junk) >>,
      << Line(FALSE, "const data = ", Junk), DataLine(S0) >>,
      << Line(FALSE, "const data", Json(S0)), DataLine(S1) >>,
      << Line(FALSE, "<script>", Json(S0)), DataLine(S1) >> }

Files == { << DataLine(s) >> : s \in Summaries } \cup StructuredFiles

\* the sample names a run can see, and the exclusion settings of a run
CleanIds == {"A", "B"}

IgnoreSettings == { {}, {"B"}, {"A", "B"} }

-----------------------------------------------------------------------------
(* The Summary Extractor: the line loop of __init__.                       *)

None == [isNone |-> TRUE]

Some(x) == [isNone |-> FALSE, value |-> x]

\* line.strip()
strip(line) == [line EXCEPT !.ws = FALSE]

\* a test that every line passes
StartsWithAnything(line) == TRUE

\* line.startswith("const data")
StartsWithConstData(line) ==
    ~line.ws /\ line.head \in {"const data = ", "const data"}

\* line.replace("const data = ", "")
ReplaceConstData(line) ==
    IF line.head = "const data = " THEN [line EXCEPT !.head = ""] ELSE line

\* json.loads(line): the object, or a JSONDecodeError
json_loads(line) ==
    IF line.head = "" /\ line.body.valid
    THEN [ok |-> TRUE, value |-> line.body.obj]
    ELSE [ok |-> FALSE, value |-> EmptyDict]

\* the loop without its break: every matching line is parsed, the last one stays
RECURSIVE ScanLinesNoBreak(_, _)
ScanLinesNoBreak(lines, i) ==
    IF i > Len(lines)
    THEN [kind |-> "none", summary |-> None, read |-> Len(lines)]
    ELSE LET line == strip(lines[i])
             rest == ScanLinesNoBreak(lines, i + 1)
         IN  IF StartsWithConstData(line)
             THEN LET r == json_loads(ReplaceConstData(line))
                  IN  IF ~r.ok
                      THEN [kind |-> "error", summary |-> None, read |-> i]
                      ELSE IF rest.kind = "none"
                           THEN [kind |-> "summary", summary |-> Some(r.value),
                                 read |-> Len(lines)]
                           ELSE rest
             ELSE rest

\* for line in f["f"]: ... break.  kind is "none" (no matching line),
\* "summary" or "error" (json.loads raised); read counts the lines consumed.
RECURSIVE ScanLines(_, _)
ScanLines(lines, i) ==
    IF i > Len(lines)
    THEN [kind |-> "none", summary |-> None, read |-> Len(lines)]
    ELSE LET line == strip(lines[i])
         IN  IF StartsWithConstData(line)
             THEN LET r == json_loads(ReplaceConstData(line))
                  IN  IF r.ok
                      THEN [kind |-> "summary", summary |-> Some(r.value), read |-> i]
                      ELSE [kind |-> "error", summary |-> None, read |-> i]
             ELSE ScanLines(lines, i + 1)

ReadSummary(f) == ScanLines(f, 1)

-----------------------------------------------------------------------------
(* Collaborators of the module (utils.py and the module base class).       *)

\* clean_s_name: the name up to its first file extension
clean_s_name(raw) == Head(raw)

LastIndex(pairs, name) ==
    CHOOSE i \in 1..Len(pairs) :
        /\ pairs[i][1] = name
        /\ \A j \in (i + 1)..Len(pairs) : pairs[j][1] # name

Names(pairs) == {pairs[i][1] : i \in 1..Len(pairs)}

\* table_data_and_headers(rows, help_text): (data, headers)
table_data_and_headers(rows, help) ==
    [data |-> [n \in Names(rows) |-> rows[LastIndex(rows, n)][2]],
     headers |->
        [n \in Names(rows) |->
            [title |-> n,
             description |->
                IF n \in Names(help) THEN help[LastIndex(help, n)][2] ELSE ""]]]

\* extract_plot_data(plot): the (x, y) points of the plot, in order
extract_plot_data(plot) ==
    [i \in 1..Len(plot.x) |-> << plot.x[i], plot.y[i] >>]

\* subset_header(data_headers, cols): the headers of the requested names
subset_header(headers, cols) ==
    [n \in (DOMAIN headers) \cap SeqRange(cols) |-> headers[n]]

\* ignore_samples(data): data without the excluded sample names
ignore_samples(data, ign) == DictDrop(data, ign)

-----------------------------------------------------------------------------
(* parse_html_summary                                                      *)

\* summary[k][field] for each k of keys, concatenated; a KeyError at the
\* first key that is missing
RECURSIVE Collect(_, _, _, _)
Collect(summary, keys, field, i) ==
    IF i > Len(keys)
    THEN [ok |-> TRUE, value |-> << >>]
    ELSE IF keys[i] \notin DOMAIN summary
         THEN [ok |-> FALSE, value |-> << >>]
         ELSE IF field \notin DOMAIN summary[keys[i]]
              THEN [ok |-> FALSE, value |-> << >>]
              ELSE LET rest == Collect(summary, keys, field, i + 1)
                   IN  [ok |-> rest.ok,
                        value |-> IF rest.ok
                                  THEN summary[keys[i]][field] \o rest.value
                                  ELSE << >>]

\* the loop without its id test
HasIdAlways(alarm) == TRUE

\* not ("id" not in alarm)
HasId(alarm) == "id" \in DOMAIN alarm

\* for alarm in alarms_list: the warnings and warnings_headers after the
\* loop, or after the KeyError that ended it
RECURSIVE AlarmLoop(_, _, _, _)
AlarmLoop(list, i, warnings, whdrs) ==
    IF i > Len(list)
    THEN [ok |-> TRUE, warnings |-> warnings, warnings_headers |-> whdrs]
    ELSE LET alarm == list[i]
         IN  IF ~HasId(alarm)
             THEN AlarmLoop(list, i + 1, warnings, whdrs)
             ELSE IF "title" \notin DOMAIN alarm
                  THEN [ok |-> FALSE, warnings |-> warnings, warnings_headers |-> whdrs]
                  ELSE LET w == DictSet(warnings, alarm.title, "FAIL")
                       IN  IF "message" \notin DOMAIN alarm
                           THEN [ok |-> FALSE, warnings |-> w, warnings_headers |-> whdrs]
                           ELSE AlarmLoop(list, i + 1, w,
                                    DictSet(whdrs, alarm.title,
                                        [title |-> alarm.title,
                                         description |-> alarm.message,
                                         bgcols |-> [FAIL |-> "#f06807"]]))

\* summary["alarms"].get("alarms", []) and the loop over it
ParseAlarms(summary, whdrs) ==
    IF "alarms" \notin DOMAIN summary
    THEN [ok |-> FALSE, warnings |-> EmptyDict, warnings_headers |-> whdrs]
    ELSE LET block == summary["alarms"]
             alarms_list == IF "alarms" \in DOMAIN block THEN block["alarms"] ELSE << >>
         IN  AlarmLoop(alarms_list, 1, EmptyDict, whdrs)

PlotKeyOf(t) == plot_keys[CHOOSE i \in 1..Len(PlotTypes) : PlotTypes[i] = t]

\* the four extract_plot_data calls; a KeyError when a plot key is missing
ParsePlots(summary) ==
    IF \E i \in 1..Len(plot_keys) : plot_keys[i] \notin DOMAIN summary
    THEN [ok |-> FALSE, value |-> EmptyDict]
    ELSE [ok |-> TRUE,
          value |-> [t \in PlotTypeSet |-> extract_plot_data(summary[PlotKeyOf(t)])]]

ParseResult(ok, data, warnings, plots, hdrs, whdrs) ==
    [ok |-> ok, parsed_data |-> data, warnings |-> warnings,
     plots_data_by_id |-> plots, all_headers |-> hdrs, warnings_headers |-> whdrs]

\* parse_html_summary(summary), with self.all_headers and
\* self.warnings_headers as they are left when it returns or raises
parse_html_summary(summary, hdrs, whdrs) ==
    LET rows == Collect(summary, data_rows_keys, "rows", 1)
        help == Collect(summary, help_text_keys, "data", 1)
    IN  IF ~rows.ok \/ ~help.ok
        THEN ParseResult(FALSE, EmptyDict, EmptyDict, EmptyDict, hdrs, whdrs)
        ELSE LET tdh == table_data_and_headers(rows.value, help.value)
                 al  == ParseAlarms(summary, whdrs)
                 pl  == ParsePlots(summary)
             IN  IF ~al.ok \/ ~pl.ok
                 THEN ParseResult(FALSE, EmptyDict, EmptyDict, EmptyDict,
                                  tdh.headers, al.warnings_headers)
                 ELSE ParseResult(TRUE, tdh.data, al.warnings, pl.value,
                                  tdh.headers, al.warnings_headers)

-----------------------------------------------------------------------------
(* The software version sub-step of __init__.                              *)

\* text matched by [\d\.]+
IsVersionText(t) == t \in {"2.0.1", "2.0.0", "7.1.0"}

\* re.search(r"cellranger-arc-([\d\.]+)", value)
re_search(pieces) ==
    LET hits == {i \in 1..(Len(pieces) - 1) :
                    pieces[i] = "cellranger-arc-" /\ IsVersionText(pieces[i + 1])}
    IN  IF hits = {}
        THEN [found |-> FALSE, group1 |-> ""]
        ELSE LET i == CHOOSE h \in hits : \A g \in hits : h <= g
             IN  [found |-> TRUE, group1 |-> pieces[i + 1]]

VersionResult(outcome, detail) == [outcome |-> outcome, detail |-> detail]

\* the try block: "version" (recorded), "nomatch", "caught" (KeyError or
\* AssertionError, logged) or "raised" (an exception the except clause does
\* not name)
ExtractVersion(summary) ==
    IF "joint_pipeline_info_table" \notin DOMAIN summary
    THEN VersionResult("caught", "KeyError")
    ELSE LET table == summary["joint_pipeline_info_table"]
         IN  IF "rows" \notin DOMAIN table
             THEN VersionResult("caught", "KeyError")
             ELSE IF Len(table["rows"]) < VersionRow
                  THEN VersionResult("raised", "IndexError")
                  ELSE LET version_pair == table["rows"][VersionRow]
                       IN  IF Len(version_pair) < 1
                           THEN VersionResult("raised", "IndexError")
                           ELSE IF version_pair[1] # "Pipeline version"
                           THEN VersionResult("caught", "AssertionError")
                           ELSE IF Len(version_pair) < 2
                           THEN VersionResult("raised", "IndexError")
                           ELSE IF "str" \notin DOMAIN version_pair[2]
                           THEN VersionResult("raised", "TypeError")
                           ELSE LET m == re_search(version_pair[2].str)
                                IN  IF m.found
                                    THEN VersionResult("version", m.group1)
                                    ELSE VersionResult("nomatch", "")

-----------------------------------------------------------------------------
(* The state of one run of MultiqcModule.__init__.                         *)

VARIABLES
    pc,                    \* "scan", "filtered", "written", "stats", "done", "raised"
    err,                   \* the exception that ended the run, "" if none
    scanned,               \* the files find_log_files has yielded so far
    summary,               \* the loop's local: None or the parsed summary
    lines_read,            \* lines consumed from the handle of the last file
    warnings,              \* the loop's local: the last warning set returned
    data_by_sample,
    warnings_by_sample,
    plots_data_by_sample,
    all_headers,
    warnings_headers,
    software_versions,     \* add_software_version calls: {<<s_name, version>>}
    data_sources,          \* add_data_source calls: <<file number, s_name>>
    ignored,               \* the run's sample exclusion setting
    data_file,             \* None or the data written by write_data_file
    general_stats,         \* None or the columns given to general_stats_addcols
    sections               \* names of the sections added to the report

vars ==
    << pc, err, scanned, summary, lines_read, warnings, data_by_sample, warnings_by_sample,
       plots_data_by_sample, all_headers, warnings_headers, software_versions,
       data_sources, ignored, data_file, general_stats, sections >>

results == << data_by_sample, warnings_by_sample, plots_data_by_sample >>

outputs == << data_file, general_stats, sections >>

Init ==
    /\ pc = "scan"
    /\ err = ""
    /\ scanned = << >>
    /\ summary = None
    /\ lines_read = 0
    /\ warnings = EmptyDict
    /\ data_by_sample = EmptyDict
    /\ warnings_by_sample = EmptyDict
    /\ plots_data_by_sample = [t \in PlotTypeSet |-> EmptyDict]
    /\ all_headers = EmptyDict
    /\ warnings_headers = EmptyDict
    /\ software_versions = {}
    /\ data_sources = << >>
    /\ ignored \in IgnoreSettings
    /\ data_file = None
    /\ general_stats = None
    /\ sections = << >>

\* find_log_files yields one more file
Yields(f) ==
    /\ pc = "scan"
    /\ Len(scanned) < MaxFiles
    /\ scanned' = Append(scanned, f)

Raise(e) == pc' = "raised" /\ err' = e

\* s_name of a summary (KeyError when sample or its id is missing)
HasSampleId(s) == "sample" \in DOMAIN s /\ "id" \in DOMAIN s["sample"]

SampleName(s) == clean_s_name(s["sample"]["id"])

\* first write wins
RecordDataKeepFirst(d, s_name, parsed_data) ==
    IF s_name \in DOMAIN d THEN d ELSE DictSet(d, s_name, parsed_data)

\* data_by_sample[s_name] = parsed_data
RecordData(d, s_name, parsed_data) == DictSet(d, s_name, parsed_data)

\* if len(warnings) > 0: warnings_by_sample[s_name] = warnings
RecordWarnings(w, s_name, found) ==
    IF Cardinality(DOMAIN found) > 0 THEN DictSet(w, s_name, found) ELSE w

\* for plot_type in ...: plots_data_by_sample[plot_type][s_name] = ...
RecordPlots(p, s_name, plots_data_by_id) ==
    [t \in DOMAIN p |-> DictSet(p[t], s_name, plots_data_by_id[t])]

\* no line of the file starts with "const data": continue
SkipFile(f) ==
    LET r == ReadSummary(f)
    IN  /\ Yields(f)
        /\ r.kind = "none"
        /\ summary' = None
        /\ lines_read' = r.read
        /\ UNCHANGED << pc, err, warnings, results, all_headers, warnings_headers,
                        software_versions, data_sources, ignored, outputs >>

\* json.loads raises on the first matching line
JsonErrorFile(f) ==
    LET r == ReadSummary(f)
    IN  /\ Yields(f)
        /\ r.kind = "error"
        /\ Raise("JSONDecodeError")
        /\ summary' = None
        /\ lines_read' = r.read
        /\ UNCHANGED << warnings, results, all_headers, warnings_headers,
                        software_versions, data_sources, ignored, outputs >>

\* summary["sample"]["id"] or parse_html_summary raises a KeyError
KeyErrorFile(f) ==
    LET r == ReadSummary(f)
    IN  /\ Yields(f)
        /\ r.kind = "summary"
        /\ LET s == r.summary.value
               parsed == parse_html_summary(s, all_headers, warnings_headers)
           IN  /\ ~HasSampleId(s) \/ ~parsed.ok
               /\ all_headers' =
                    IF HasSampleId(s) THEN parsed.all_headers ELSE all_headers
               /\ warnings_headers' =
                    IF HasSampleId(s) THEN parsed.warnings_headers ELSE warnings_headers
        /\ Raise("KeyError")
        /\ summary' = r.summary
        /\ lines_read' = r.read
        /\ UNCHANGED warnings
        /\ UNCHANGED << results, software_versions, data_sources, ignored, outputs >>

\* the version sub-step raises an exception its except clause does not name
VersionErrorFile(f) ==
    LET r == ReadSummary(f)
    IN  /\ Yields(f)
        /\ r.kind = "summary"
        /\ HasSampleId(r.summary.value)
        /\ LET s == r.summary.value
               parsed == parse_html_summary(s, all_headers, warnings_headers)
               v == ExtractVersion(s)
           IN  /\ parsed.ok
               /\ v.outcome = "raised"
               /\ Raise(v.detail)
               /\ warnings' = parsed.warnings
               /\ all_headers' = parsed.all_headers
               /\ warnings_headers' = parsed.warnings_headers
        /\ summary' = r.summary
        /\ lines_read' = r.read
        /\ UNCHANGED << results, software_versions, data_sources, ignored, outputs >>

\* the file is parsed and its sample recorded
RecordFile(f) ==
    LET r == ReadSummary(f)
    IN  /\ Yields(f)
        /\ r.kind = "summary"
        /\ HasSampleId(r.summary.value)
        /\ LET s == r.summary.value
               s_name == SampleName(s)
               parsed == parse_html_summary(s, all_headers, warnings_headers)
               v == ExtractVersion(s)
           IN  /\ parsed.ok
               /\ v.outcome # "raised"
               /\ warnings' = parsed.warnings
               /\ all_headers' = parsed.all_headers
               /\ warnings_headers' = parsed.warnings_headers
               /\ software_versions' =
                    IF v.outcome = "version"
                    THEN software_versions \cup {<< s_name, v.detail >>}
                    ELSE software_versions
               /\ data_sources' = Append(data_sources, << Len(scanned) + 1, s_name >>)
               /\ data_by_sample' = RecordData(data_by_sample, s_name, parsed.parsed_data)
               /\ warnings_by_sample' =
                    RecordWarnings(warnings_by_sample, s_name, parsed.warnings)
               /\ plots_data_by_sample' =
                    RecordPlots(plots_data_by_sample, s_name, parsed.plots_data_by_id)
        /\ summary' = r.summary
        /\ lines_read' = r.read
        /\ UNCHANGED << pc, err, ignored, outputs >>

\* the plot mappings left unfiltered
FilterPlotsNot(p, ign) == p

\* self.plots_data_by_sample[k] = self.ignore_samples(...) for every k
FilterPlots(p, ign) == [k \in DOMAIN p |-> ignore_samples(p[k], ign)]

\* the loop has ended: the three ignore_samples steps
IgnoreSamples ==
    /\ pc = "scan"
    /\ pc' = "filtered"
    /\ data_by_sample' = ignore_samples(data_by_sample, ignored)
    /\ warnings_by_sample' = ignore_samples(warnings_by_sample, ignored)
    /\ plots_data_by_sample' = FilterPlots(plots_data_by_sample, ignored)
    /\ UNCHANGED << err, scanned, summary, lines_read, warnings, all_headers, warnings_headers,
                    software_versions, data_sources, ignored, outputs >>

\* a test that no mapping passes
NoSamplesNever(d) == Cardinality(DOMAIN d) < 0

\* len(data_by_sample) == 0
NoSamples(d) == Cardinality(DOMAIN d) = 0

\* raise ModuleNoSamplesFound
NoSamplesFound ==
    /\ pc = "filtered"
    /\ NoSamples(data_by_sample)
    /\ Raise("ModuleNoSamplesFound")
    /\ UNCHANGED << scanned, summary, lines_read, warnings, results, all_headers,
                    warnings_headers, software_versions, data_sources, ignored,
                    outputs >>

\* self.write_data_file(data_by_sample, "multiqc_cellranger_arc")
WriteDataFile ==
    /\ pc = "filtered"
    /\ ~NoSamples(data_by_sample)
    /\ pc' = "written"
    /\ data_file' = Some(data_by_sample)
    /\ UNCHANGED << err, scanned, summary, lines_read, warnings, results, all_headers,
                    warnings_headers, software_versions, data_sources, ignored,
                    general_stats, sections >>

\* self.general_stats_table(data_by_sample, self.all_headers)
GeneralStatsTable ==
    /\ pc = "written"
    /\ pc' = "stats"
    /\ general_stats' =
            Some([data |-> data_by_sample,
                  headers |-> subset_header(all_headers, general_cols)])
    /\ UNCHANGED << err, scanned, summary, lines_read, warnings, results, all_headers,
                    warnings_headers, software_versions, data_sources, ignored,
                    data_file, sections >>

\* the add_section calls of __init__, atac_summary_table, gex_summary_table,
\* atac_plots and gex_plots
AddSections ==
    /\ pc = "stats"
    /\ pc' = "done"
    /\ sections' =
            (IF Cardinality(DOMAIN warnings_by_sample) > 0
             THEN << "ARC - Warnings" >> ELSE << >>)
            \o << "ATAC - Summary stats", "ATAC - Cell & Mapping metrics",
                  "GEX - Summary stats" >>
            \o (IF DOMAIN plots_data_by_sample # {}
                THEN << "ATAC - TSS enrichment plot", "ATAC - Insert Size Distribution",
                        "GEX - Sequencing Saturation", "GEX - Median Genes per Cell" >>
                ELSE << >>)
    /\ UNCHANGED << err, scanned, summary, lines_read, warnings, results, all_headers,
                    warnings_headers, software_versions, data_sources, ignored,
                    data_file, general_stats >>

Next ==
    \/ \E f \in Files : SkipFile(f)
    \/ \E f \in Files : JsonErrorFile(f)
    \/ \E f \in Files : KeyErrorFile(f)
    \/ \E f \in Files : VersionErrorFile(f)
    \/ \E f \in Files : RecordFile(f)
    \/ IgnoreSamples
    \/ NoSamplesFound
    \/ WriteDataFile
    \/ GeneralStatsTable
    \/ AddSections

Spec == Init /\ [][Next]_vars

-----------------------------------------------------------------------------
(* What the properties below say about a file, read off the file itself.   *)

IsDataLine(l) == l.head \in {"const data = ", "const data"}

DataLineIndexes(f) == {i \in 1..Len(f) : IsDataLine(f[i])}

HasDataLine(f) == DataLineIndexes(f) # {}

FirstDataLine(f) == CHOOSE i \in DataLineIndexes(f) : \A j \in DataLineIndexes(f) : i <= j

\* the first data line is "const data = " followed by a JSON object
FirstLineParses(f) ==
    /\ HasDataLine(f)
    /\ f[FirstDataLine(f)].head = "const data = "
    /\ f[FirstDataLine(f)].body.valid

SummaryOf(f) == f[FirstDataLine(f)].body.obj

CleanedId(f) == clean_s_name(SummaryOf(f)["sample"]["id"])

LastScanned == scanned[Len(scanned)]

\* positions of the scanned files that yielded a summary for sample s
FilesOf(s) ==
    {i \in 1..Len(scanned) : FirstLineParses(scanned[i]) /\ CleanedId(scanned[i]) = s}

LastFileOf(s) == scanned[CHOOSE i \in FilesOf(s) : \A j \in FilesOf(s) : j <= i]

Parsed(f) == parse_html_summary(SummaryOf(f), EmptyDict, EmptyDict)

NoOutput == data_file = None /\ general_stats = None /\ sections = << >>

Filtered ==
    \/ pc \in {"filtered", "written", "stats", "done"}
    \/ pc = "raised" /\ err = "ModuleNoSamplesFound"

\* titles of the entries of summary.alarms.alarms that carry an id
TitlesWithId(s) ==
    IF "alarms" \in DOMAIN s["alarms"]
    THEN {s["alarms"]["alarms"][i].title :
            i \in {j \in 1..Len(s["alarms"]["alarms"]) :
                        "id" \in DOMAIN s["alarms"]["alarms"][j]}}
    ELSE {}

-----------------------------------------------------------------------------
(* Properties.                                                             *)

\* C1: after the scan and the exclusion filter, data_by_sample holds exactly
\* the cleaned sample IDs of the files that yielded a summary minus the
\* excluded IDs; no excluded ID remains in data_by_sample, warnings_by_sample
\* or any plot mapping, and every kept ID is in all four plot mappings.
C1_FilteredResult ==
    Filtered =>
        /\ DOMAIN data_by_sample =
                {CleanedId(scanned[i]) :
                    i \in {j \in 1..Len(scanned) : HasDataLine(scanned[j])}} \ ignored
        /\ DOMAIN data_by_sample \cap ignored = {}
        /\ DOMAIN warnings_by_sample \cap ignored = {}
        /\ DOMAIN plots_data_by_sample = PlotTypeSet
        /\ \A t \in PlotTypeSet :
                /\ DOMAIN plots_data_by_sample[t] \cap ignored = {}
                /\ DOMAIN data_by_sample \subseteq DOMAIN plots_data_by_sample[t]

\* two files yielded samples A and B, B is excluded, only A is left
C1_Witness ==
    /\ pc = "filtered"
    /\ ignored = {"B"}
    /\ FilesOf("A") # {}
    /\ FilesOf("B") # {}
    /\ DOMAIN data_by_sample = {"A"}
    /\ DOMAIN plots_data_by_sample["genes"] = {"A"}

\* C2: when several files yield the same cleaned SampleID, the later file
\* overwrites the earlier one: during and after the scan data_by_sample and
\* each plot mapping hold, for that SampleID, the values parsed from the
\* last file processed with it.
C2_LastFileWins ==
    pc = "scan" =>
        \A s \in CleanIds :
            FilesOf(s) # {} =>
                /\ s \in DOMAIN data_by_sample
                /\ data_by_sample[s] = Parsed(LastFileOf(s)).parsed_data
                /\ \A t \in PlotTypeSet :
                    /\ s \in DOMAIN plots_data_by_sample[t]
                    /\ plots_data_by_sample[t][s] =
                            Parsed(LastFileOf(s)).plots_data_by_id[t]

\* two files with the same cleaned SampleID and different data were scanned
C2_Witness ==
    /\ pc = "scan"
    /\ Len(scanned) = 2
    /\ FilesOf("A") = {1, 2}
    /\ SummaryOf(scanned[1])["sample"]["id"] # SummaryOf(scanned[2])["sample"]["id"]
    /\ Parsed(scanned[1]).parsed_data # Parsed(scanned[2]).parsed_data
    /\ data_by_sample["A"] = Parsed(scanned[2]).parsed_data
    /\ DOMAIN data_by_sample = {"A"}

\* C3: if data_by_sample is empty after the exclusion filter the run raises
\* ModuleNoSamplesFound, and no data file is written, no general-stats
\* columns and no section are added before it is raised.
C3_NoSamplesRaises ==
    /\ []((Filtered /\ DOMAIN data_by_sample = {}) =>
            (pc \in {"filtered", "raised"} /\ NoOutput))
    /\ [][(pc = "filtered" /\ DOMAIN data_by_sample = {}) =>
            (pc' = "raised" /\ err' = "ModuleNoSamplesFound" /\ NoOutput')]_vars

\* a file yielded a sample, the sample was excluded, the run raised
C3_Witness ==
    /\ pc = "raised"
    /\ err = "ModuleNoSamplesFound"
    /\ \E s \in CleanIds : FilesOf(s) # {}
    /\ NoOutput

\* C4: a file in which no stripped line starts with "const data" is
\* skipped: it changes none of data_by_sample, warnings_by_sample, the plot
\* mappings, all_headers and warnings_headers, raises nothing, and the scan
\* goes on.
C4_NoDataLineSkipped ==
    [][(pc = "scan" /\ Len(scanned') = Len(scanned) + 1
            /\ ~HasDataLine(scanned'[Len(scanned')]))
        => (/\ pc' = "scan"
            /\ err' = ""
            /\ UNCHANGED << results, all_headers, warnings_headers >>)]_vars

\* a file of lines without "const data" was skipped, the next one recorded
C4_Witness ==
    /\ pc = "scan"
    /\ Len(scanned) = 2
    /\ Len(scanned[1]) > 0
    /\ ~HasDataLine(scanned[1])
    /\ FirstLineParses(scanned[2])
    /\ DOMAIN data_by_sample = {CleanedId(scanned[2])}

\* C5: the summary of a file is the JSON of its first line that starts
\* with "const data", the substring "const data = " removed; the scan of
\* the file stops at that line, and if that line is no JSON the error is
\* raised and no later line is tried.
C5_FirstDataLineOnly ==
    (pc \in {"scan", "raised"} /\ err # "ModuleNoSamplesFound"
        /\ Len(scanned) > 0 /\ HasDataLine(LastScanned)) =>
        /\ lines_read = FirstDataLine(LastScanned)
        /\ IF FirstLineParses(LastScanned)
           THEN summary = Some(SummaryOf(LastScanned)) /\ err # "JSONDecodeError"
           ELSE summary = None /\ pc = "raised" /\ err = "JSONDecodeError"

\* a file with two data lines holding different summaries: the first is kept
C5_Witness ==
    /\ pc = "scan"
    /\ Len(scanned) > 0
    /\ \E i, j \in DataLineIndexes(LastScanned) :
            /\ i < j
            /\ LastScanned[i].body.valid /\ LastScanned[j].body.valid
            /\ LastScanned[i].body.obj # LastScanned[j].body.obj
            /\ summary = Some(LastScanned[i].body.obj)

\* C6: the warning set parse_html_summary returns has as keys exactly the
\* titles of the alarms entries that carry an id, each with value "FAIL";
\* entries without id add nothing to it or to warnings_headers, and an
\* alarms block without an alarms key gives the empty set.
C6_WarningsAreAlarmsWithId ==
    (pc = "scan" /\ ~summary.isNone) =>
        /\ DOMAIN warnings = TitlesWithId(summary.value)
        /\ \A t \in DOMAIN warnings : warnings[t] = "FAIL"
        /\ DOMAIN warnings_headers =
                UNION {TitlesWithId(SummaryOf(scanned[i])) :
                        i \in {j \in 1..Len(scanned) : HasDataLine(scanned[j])}}

\* a summary with one alarm that has an id and one that has none
C6_Witness ==
    /\ pc = "scan"
    /\ ~summary.isNone
    /\ "alarms" \in DOMAIN summary.value["alarms"]
    /\ \E i \in 1..Len(summary.value["alarms"]["alarms"]) :
            /\ "id" \notin DOMAIN summary.value["alarms"]["alarms"][i]
            /\ summary.value["alarms"]["alarms"][i].title \notin DOMAIN warnings_headers
    /\ Cardinality(DOMAIN warnings) = 1

\* C7: a summary that lacks one of the eight table sections, the eight
\* helptext sections or the four plot sections ends the run with an error:
\* the file adds nothing to data_by_sample, warnings_by_sample or the plot
\* mappings, and no output is made, then or later.
C7_MissingSectionAborts ==
    [][/\ pc # "raised"
       /\ (pc = "scan" /\ Len(scanned') = Len(scanned) + 1
                /\ FirstLineParses(scanned'[Len(scanned')])
                /\ RequiredKeys \ DOMAIN SummaryOf(scanned'[Len(scanned')]) # {})
            => (/\ pc' = "raised"
                /\ err' = "KeyError"
                /\ UNCHANGED results
                /\ NoOutput')]_vars

\* the second file lacks gex_mapping_table: the run ended, the first stays
C7_Witness ==
    /\ pc = "raised"
    /\ err = "KeyError"
    /\ Len(scanned) = 2
    /\ ~summary.isNone
    /\ "gex_mapping_table" \notin DOMAIN summary.value
    /\ FirstLineParses(scanned[1])
    /\ DOMAIN data_by_sample = {CleanedId(scanned[1])}
    /\ NoOutput

\* C8: version extraction never aborts a file: whenever parse_html_summary
\* accepts the summary of a file, the run does not end at that file and the
\* file's sample is recorded, whatever joint_pipeline_info_table holds.
C8_VersionNeverAborts ==
    (Len(scanned) > 0 /\ FirstLineParses(LastScanned) /\ Parsed(LastScanned).ok) =>
        /\ ~(pc = "raised" /\ err # "ModuleNoSamplesFound")
        /\ pc = "scan" =>
                /\ CleanedId(LastScanned) \in DOMAIN data_by_sample
                /\ \A t \in PlotTypeSet :
                    CleanedId(LastScanned) \in DOMAIN plots_data_by_sample[t]

\* C9: all_headers accumulates: after any sequence of parsed files it has
\* an entry for every metric name any of them produced.
C9_HeadersAccumulate ==
    pc = "scan" =>
        \A i \in 1..Len(scanned) :
            HasDataLine(scanned[i]) =>
                DOMAIN Parsed(scanned[i]).parsed_data \subseteq DOMAIN all_headers

\* C10: a SampleID has an entry in warnings_by_sample exactly if the last
\* file processed for it produced a warning, and the entry is that file's
\* warning set.
C10_WarningsOfLastFile ==
    pc = "scan" =>
        \A s \in CleanIds :
            FilesOf(s) # {} =>
                /\ s \in DOMAIN warnings_by_sample
                        <=> DOMAIN Parsed(LastFileOf(s)).warnings # {}
                /\ s \in DOMAIN warnings_by_sample
                        => warnings_by_sample[s] = Parsed(LastFileOf(s)).warnings

=============================================================================
